---- MODULE Spec2Model ----
(***************************************************************************)
(* Verification model of smart-grader: the grading service client          *)
(* (gradeExamPages), the session state kept by App, the mark editor        *)
(* handlers of GradingCanvas and the report compositor                     *)
(* (generateGradedPDF, wrapText).                                          *)
(*                                                                         *)
(* Numbers.  Mark coordinates are JavaScript numbers (IEEE-754 binary64).  *)
(* A coordinate v is the record [i, f1, f2] that stands for                *)
(*     v = i + f1 / 2^28 + f2 / 2^56,   0 <= f1, f2 < 2^28,                *)
(* which represents exactly every binary64 value of [2^-4, 128) and every  *)
(* integer; the subtraction 100 - v is rounded to 53 significant bits,     *)
(* ties to even, as the hardware does.  Pixel sizes are integers.  Sidebar *)
(* cursor positions are kept in twentieths of a pixel, the common          *)
(* denominator of the factors 1.5, 0.9 and 1.5 the compositor uses.        *)
(***************************************************************************)
EXTENDS Integers, Sequences, FiniteSets, TLC

VARIABLES
  \* App.tsx: the session state (useState)
  status, pages, marks, activePageIndex, isStudentFormOpen,
  downloadUrl, pdfBlob, studentInfo, isSharing,
  \* GradingCanvas: the id of the mark whose note is open, or Null
  expandedMarkId,
  \* the running call of gradeExamPages: its locals and loop position
  grading,
  \* the responses the service has given to the pages of the batch being graded
  serviceLog,
  \* environment: Date.now(), the object URLs not yet revoked, the API key
  now, liveUrls, apiKeyConfigured,
  \* the running call of generateGradedPDF: its arguments, loop position and
  \* the document so far
  generating,
  \* a call of wrapText run one loop iteration at a time (SpecWrap)
  wrapCall,
  \* the last call made on the mark editor, with its arguments (SpecMarks)
  editorCall,
  \* the running call of handleShare: the file name it built and the way the
  \* file goes out
  shareCall,
  \* the point the remap is applied to repeatedly (SpecRot)
  rotCase

appVars == <<status, pages, marks, activePageIndex, isStudentFormOpen,
             downloadUrl, pdfBlob, studentInfo, isSharing, expandedMarkId,
             grading, serviceLog, now, liveUrls, apiKeyConfigured>>

\* the variables the session handlers never touch
restVars == <<generating, wrapCall, editorCall, shareCall, rotCase>>

vars == <<appVars, restVars>>

\* null / undefined, for the state that holds a record or nothing
Null == [null |-> TRUE]

----------------------------------------------------------------------------
(* binary64 values on the 2^-56 grid *)

Limb == 2^28

Num(i, f1, f2) == [i |-> i, f1 |-> f1, f2 |-> f2]

FromInt(n) == Num(n, 0, 0)

\* a < b
Less(a, b) ==
  \/ a.i < b.i
  \/ a.i = b.i /\ a.f1 < b.f1
  \/ a.i = b.i /\ a.f1 = b.f1 /\ a.f2 < b.f2

Log2Floor(n) == CHOOSE e \in 0..30 : 2^e <= n /\ n < 2^(e + 1)

\* the weight, in units of 2^-56, of the last of the 53 significant bits of r
Quantum(r) ==
  IF r.i >= 1 THEN 2^(Log2Floor(r.i) + 4)
  ELSE IF r.f1 >= 2^24 THEN 2^(Log2Floor(r.f1) - 24)
  ELSE 1

\* round to nearest, ties to even, at 53 significant bits
RoundNearestEven(r) ==
  LET q   == Quantum(r)
      k   == r.f2 \div q
      rem == r.f2 % q
      up  == 2 * rem > q \/ (2 * rem = q /\ k % 2 = 1)
      f2n == (IF up THEN k + 1 ELSE k) * q
  IN  IF f2n < Limb THEN Num(r.i, r.f1, f2n)
      ELSE IF r.f1 + 1 < Limb THEN Num(r.i, r.f1 + 1, 0)
      ELSE Num(r.i + 1, 0, 0)

\* the exact difference 100 - v, for 0 <= v <= 100
ExactHundredMinus(v) ==
  IF v.f1 = 0 /\ v.f2 = 0 THEN Num(100 - v.i, 0, 0)
  ELSE IF v.f2 = 0 THEN Num(99 - v.i, Limb - v.f1, 0)
  ELSE Num(99 - v.i, Limb - 1 - v.f1, Limb - v.f2)

\* the JavaScript expression 100 - v
HundredMinus(v) == RoundNearestEven(ExactHundredMinus(v))

----------------------------------------------------------------------------
(* gradeExamPages: the coordinate remap of one mark *)

\* faulty variant: the 90 branch writes m.y to both coordinates
RemapMarkSameAxis(rotation, m) ==
  IF rotation = 90 THEN [m EXCEPT !.x = HundredMinus(m.y), !.y = m.y]
  ELSE IF rotation = 180 THEN [m EXCEPT !.x = HundredMinus(m.x), !.y = HundredMinus(m.y)]
  ELSE IF rotation = 270 THEN [m EXCEPT !.x = m.y, !.y = HundredMinus(m.x)]
  ELSE m

\* faulty variant: the 90 and 270 branches exchanged (counter-clockwise for clockwise)
RemapMarkCounterClockwise(rotation, m) ==
  IF rotation = 90 THEN [m EXCEPT !.x = m.y, !.y = HundredMinus(m.x)]
  ELSE IF rotation = 180 THEN [m EXCEPT !.x = HundredMinus(m.x), !.y = HundredMinus(m.y)]
  ELSE IF rotation = 270 THEN [m EXCEPT !.x = HundredMinus(m.y), !.y = m.x]
  ELSE m

\* faulty variant: the 180 branch forgets to flip y
RemapMarkHalfFlip(rotation, m) ==
  IF rotation = 90 THEN [m EXCEPT !.x = HundredMinus(m.y), !.y = m.x]
  ELSE IF rotation = 180 THEN [m EXCEPT !.x = HundredMinus(m.x)]
  ELSE IF rotation = 270 THEN [m EXCEPT !.x = m.y, !.y = HundredMinus(m.x)]
  ELSE m

RemapMark(rotation, m) ==
  IF rotation = 90 THEN [m EXCEPT !.x = HundredMinus(m.y), !.y = m.x]
  ELSE IF rotation = 180 THEN [m EXCEPT !.x = HundredMinus(m.x), !.y = HundredMinus(m.y)]
  ELSE IF rotation = 270 THEN [m EXCEPT !.x = m.y, !.y = HundredMinus(m.x)]
  ELSE m

\* result.marks.map(...) of the remap
RemapMarks(rotation, pageMarks) ==
  [k \in 1..Len(pageMarks) |-> RemapMark(rotation, pageMarks[k])]

----------------------------------------------------------------------------
(* JavaScript values *)

\* { ...rec, key: val }
With(rec, key, val) ==
  [k \in DOMAIN rec \cup {key} |-> IF k = key THEN val ELSE rec[k]]

\* faulty variant: rec.key ?? default, which keeps an empty string
NullishText(rec, key, default) ==
  IF key \in DOMAIN rec THEN rec[key] ELSE default

\* rec.key || default, for a string kept as a sequence of characters
OrText(rec, key, default) ==
  IF key \in DOMAIN rec /\ rec[key] # <<>> THEN rec[key] ELSE default

\* rec.key || default, for a string kept as a TLA+ string
OrString(rec, key, default) ==
  IF key \in DOMAIN rec /\ rec[key] # "" THEN rec[key] ELSE default

\* rec.key || default, for a number
OrNumber(rec, key, default) ==
  IF key \in DOMAIN rec /\ rec[key] # 0 THEN rec[key] ELSE default

\* rec.key || default, for an array (an empty array is truthy)
OrArray(rec, key, default) ==
  IF key \in DOMAIN rec THEN rec[key] ELSE default

RECURSIVE FreshFrom(_, _, _)
FreshFrom(used, n, c) ==
  IF n = 0 THEN <<>>
  ELSE IF c \in used THEN FreshFrom(used, n, c + 1)
  ELSE <<c>> \o FreshFrom(used, n - 1, c + 1)

\* n values not in used: what n calls of Math.random() or of
\* URL.createObjectURL return (values never returned before)
Fresh(used, n) == FreshFrom(used, n, 1)

Range(f) == {f[k] : k \in DOMAIN f}

----------------------------------------------------------------------------
(* input domains *)

Tenth == Num(0, 26843545, 161061274)            \* 0.1
ThirtyThreePointThree == Num(33, 80530636, 214748160)   \* 33.3

\* coordinates the service can report: percentages in [0,100]
ServiceCoords ==
  {FromInt(0), FromInt(10), FromInt(20), FromInt(100), Tenth, ThirtyThreePointThree}

Rotations == {90, 180, 270}

MaxRotations == 4

\* the files of one selection: at most MaxPages of them
MaxPages == 2

\* object URLs alive at once (a selection that would exceed it is not made)
MaxLiveUrls == 3

\* marks added by hand in the collection beyond which no click adds one
MaxManualMarks == 2

\* the last millisecond of the clock
MaxTime == 1

\* the image rectangle on screen is a square of 2^RectSideLog pixels
RectSideLog == 3

RectSide == 2^RectSideLog

\* clicks, as offsets from the corner of the rectangle: left of it, inside
\* it, below it, right of it
ClickOffsets ==
  {[dx |-> -3, dy |-> 1], [dx |-> 1, dy |-> RectSide + 3], [dx |-> RectSide + 3, dy |-> -2]}


\* a photo of an exam page, and a file the browser cannot decode
Photo == [w |-> 201, h |-> 300, ok |-> TRUE]
BrokenFile == [w |-> 0, h |-> 0, ok |-> FALSE]

Files == {Photo, BrokenFile}

FileLists == UNION {[1..n -> Files] : n \in 1..MaxPages}

\* marks as the service reports them (optional text fields present or not;
\* a text is the sequence of its characters)
BareMark == [x |-> FromInt(10), y |-> FromInt(20), status |-> "correct"]

FullMark ==
  [x |-> Tenth, y |-> FromInt(100), status |-> "incorrect",
   question |-> <<"Q", "1">>, student_answer |-> <<"7">>,
   correct_answer |-> <<"8">>, explanation |-> <<"n", "o">>]

PartialMark ==
  [x |-> ThirtyThreePointThree, y |-> FromInt(20), status |-> "incorrect",
   question |-> <<>>, student_answer |-> <<"7">>]

ServiceMarkLists == {<<>>, <<BareMark>>, <<FullMark>>, <<PartialMark, BareMark>>}

\* the JSON the service can answer with for one page
Responses ==
  {[rotation_needed |-> r, detected_language |-> l, marks |-> ms] :
     r \in {0} \cup Rotations, l \in {"zh", "en"}, ms \in ServiceMarkLists}
  \cup {[rotation_needed |-> r, marks |-> ms] :
     r \in {0} \cup Rotations, ms \in ServiceMarkLists}

----------------------------------------------------------------------------
(* images and object URLs *)

\* URL.createObjectURL(file)
BlobUrl(key, file) ==
  [kind |-> "blob", key |-> key, w |-> file.w, h |-> file.h, ok |-> file.ok]

\* new Image() with src = url: onload (TRUE) or onerror (FALSE)
ImageLoads(url, live) == url.ok /\ (url.kind = "data" \/ url.key \in live)

\* faulty variant: the image is redrawn on a canvas for angle 0 as well
RotatedUrlAlwaysRedrawn(url, angle) ==
  IF angle = 90 \/ angle = 270
    THEN [kind |-> "data", key |-> 0, w |-> url.h, h |-> url.w, ok |-> TRUE]
    ELSE [kind |-> "data", key |-> 0, w |-> url.w, h |-> url.h, ok |-> TRUE]

\* rotateImage: the data URL of the canvas the image was drawn on
RotatedUrl(url, angle) ==
  IF angle = 0 THEN url
  ELSE IF angle = 90 \/ angle = 270
    THEN [kind |-> "data", key |-> 0, w |-> url.h, h |-> url.w, ok |-> TRUE]
    ELSE [kind |-> "data", key |-> 0, w |-> url.w, h |-> url.h, ok |-> TRUE]

BlobKeys(ps) == {ps[k].imageUrl.key : k \in {j \in DOMAIN ps : ps[j].imageUrl.kind = "blob"}}

----------------------------------------------------------------------------
(* gradeExamPages *)

QuestionZh == <<"ti", "mu">>                 \* the two characters of "题目"
QuestionEn == <<"Q", "u", "e", "s", "t", "i", "o", "n">>
UnknownZh == <<"wei", "zhi">>                \* "未知"
UnknownEn == <<"U", "n", "k", "n", "o", "w", "n">>
Dash == <<"-">>
NoExplanationZh == <<"wu", "jie", "xi">>     \* "无解析"
NoExplanationEn == <<"N", "o", " ", "e", "x", "p", "l", ".">>   \* "No explanation provided."

\* allMarks.push({...}) for the service mark m of page number i
NewMark(m, page, i, language, rnd) ==
  [id |-> [kind |-> "mark", page |-> page.id, rnd |-> rnd],
   x |-> m.x,
   y |-> m.y,
   status |-> m.status,
   pageIndex |-> i,
   question |-> OrText(m, "question", IF language = "zh" THEN QuestionZh ELSE QuestionEn),
   studentAnswer |-> OrText(m, "student_answer", IF language = "zh" THEN UnknownZh ELSE UnknownEn),
   correctAnswer |-> OrText(m, "correct_answer", Dash),
   explanation |-> OrText(m, "explanation",
                          IF language = "zh" THEN NoExplanationZh ELSE NoExplanationEn)]

MarkRnds(ms) == {ms[k].id.rnd : k \in {j \in DOMAIN ms : ms[j].id.kind = "mark"}}

NotGrading ==
  [pc |-> "idle", pages |-> <<>>, i |-> 0, allMarks |-> <<>>, processedPages |-> <<>>]

GradingPage == grading.pages[grading.i + 1]

\* the body of the loop for a page whose response parsed, once the image
\* (if any rotation is needed) has been rotated
GradedPage(g, result, rnds) ==
  LET page     == g.pages[g.i + 1]
      rotation == OrNumber(result, "rotation_needed", 0)
      language == OrString(result, "detected_language", "en")
      raw      == OrArray(result, "marks", <<>>)
      newPage  == With([page EXCEPT !.imageUrl = RotatedUrl(page.imageUrl, rotation)],
                       "detectedLanguage", language)
      pageMarks == IF rotation # 0 THEN RemapMarks(rotation, raw) ELSE raw
  IN  [g EXCEPT !.processedPages[g.i + 1] = newPage,
                !.allMarks = g.allMarks \o
                   [k \in 1..Len(pageMarks) |->
                      NewMark(pageMarks[k], page, g.i, language, rnds[k])],
                !.i = g.i + 1]

PageInLoop ==
  /\ grading.pc = "running"
  /\ grading.i < Len(grading.pages)

\* faulty variant: what was graded before the failure is stored
GradingThrowsKeepingPartial ==
  /\ status' = "IDLE"
  /\ marks' = grading.allMarks
  /\ pages' = grading.processedPages
  /\ grading' = NotGrading
  /\ serviceLog' = <<>>
  /\ UNCHANGED <<activePageIndex, isStudentFormOpen, downloadUrl, pdfBlob,
                 studentInfo, isSharing, expandedMarkId, now, liveUrls,
                 apiKeyConfigured>>

\* catch (error) { throw error } in gradeExamPages, then the catch of
\* handleFilesSelected
GradingThrows ==
  /\ status' = "IDLE"
  /\ grading' = NotGrading
  /\ serviceLog' = <<>>
  /\ UNCHANGED <<pages, marks, activePageIndex, isStudentFormOpen, downloadUrl,
                 pdfBlob, studentInfo, isSharing, expandedMarkId, now, liveUrls,
                 apiKeyConfigured>>

\* the API key is missing: gradeExamPages throws before its loop
GradeWithoutApiKey ==
  /\ grading.pc = "running"
  /\ ~apiKeyConfigured
  /\ GradingThrows

\* the file cannot be read, the service call rejects or its text is not JSON
GradePageFails ==
  /\ PageInLoop
  /\ apiKeyConfigured
  /\ GradingThrows

\* response.text is empty: the page is left as it is
GradePageEmpty ==
  /\ PageInLoop
  /\ apiKeyConfigured
  /\ grading' = [grading EXCEPT !.i = grading.i + 1]
  /\ serviceLog' = Append(serviceLog, [empty |-> TRUE])
  /\ UNCHANGED <<status, pages, marks, activePageIndex, isStudentFormOpen,
                 downloadUrl, pdfBlob, studentInfo, isSharing, expandedMarkId,
                 now, liveUrls, apiKeyConfigured>>

\* a response with rotation 0, or with a rotation and an image that rotates
GradePage(result) ==
  /\ PageInLoop
  /\ apiKeyConfigured
  /\ \/ OrNumber(result, "rotation_needed", 0) = 0
     \/ ImageLoads(GradingPage.imageUrl, liveUrls)
  /\ grading' = GradedPage(grading, result,
                           Fresh(MarkRnds(grading.allMarks) \cup MarkRnds(marks),
                                 Len(OrArray(result, "marks", <<>>))))
  /\ serviceLog' = Append(serviceLog, result)
  /\ UNCHANGED <<status, pages, marks, activePageIndex, isStudentFormOpen,
                 downloadUrl, pdfBlob, studentInfo, isSharing, expandedMarkId,
                 now, liveUrls, apiKeyConfigured>>

\* a response with a rotation, and rotateImage rejects (img.onerror)
GradePageRotateFails(result) ==
  /\ PageInLoop
  /\ apiKeyConfigured
  /\ OrNumber(result, "rotation_needed", 0) # 0
  /\ ~ImageLoads(GradingPage.imageUrl, liveUrls)
  /\ GradingThrows

----------------------------------------------------------------------------
(* App *)

\* handleFileChange and handleFilesSelected up to the call of gradeExamPages;
\* the file input of the Scanner is hidden and its label lies under the form
\* overlay while the form is open
HandleFilesSelected(files) ==
  /\ status = "IDLE"
  /\ ~isStudentFormOpen
  /\ Len(files) > 0
  /\ Cardinality(liveUrls) + Len(files) <= MaxLiveUrls
  /\ LET ids  == Fresh({pages[k].id : k \in DOMAIN pages}, Len(files))
         keys == Fresh(liveUrls \cup BlobKeys(pages), Len(files))
         initialPages == [k \in 1..Len(files) |->
                            [id |-> ids[k],
                             imageUrl |-> BlobUrl(keys[k], files[k]),
                             file |-> files[k]]]
     IN  /\ pages' = initialPages
         /\ liveUrls' = liveUrls \cup Range(keys)
         /\ grading' = [pc |-> "running", pages |-> initialPages, i |-> 0,
                        allMarks |-> <<>>, processedPages |-> initialPages]
  /\ status' = "PROCESSING"
  /\ serviceLog' = <<>>
  /\ UNCHANGED <<marks, activePageIndex, isStudentFormOpen, downloadUrl, pdfBlob,
                 studentInfo, isSharing, expandedMarkId, now, apiKeyConfigured>>

\* gradeExamPages returns; handleFilesSelected stores its result
FilesGraded ==
  /\ grading.pc = "running"
  /\ apiKeyConfigured
  /\ grading.i = Len(grading.pages)
  /\ marks' = grading.allMarks
  /\ pages' = grading.processedPages
  /\ status' = "REVIEWING"
  /\ grading' = NotGrading
  /\ serviceLog' = <<>>
  /\ UNCHANGED <<activePageIndex, isStudentFormOpen, downloadUrl, pdfBlob,
                 studentInfo, isSharing, expandedMarkId, now, liveUrls,
                 apiKeyConfigured>>

----------------------------------------------------------------------------
(* the mark editor: App's updaters and GradingCanvas's handlers *)

\* faulty variant: an update of an unknown id inserts the mark
UpsertedMarks(prev, updatedMark) ==
  IF \E k \in DOMAIN prev : prev[k].id = updatedMark.id
  THEN [k \in DOMAIN prev |-> IF prev[k].id = updatedMark.id THEN updatedMark ELSE prev[k]]
  ELSE Append(prev, updatedMark)

\* setMarks(prev => prev.map(m => m.id === updatedMark.id ? updatedMark : m))
UpdatedMarks(prev, updatedMark) ==
  [k \in DOMAIN prev |-> IF prev[k].id = updatedMark.id THEN updatedMark ELSE prev[k]]

\* faulty variant: the mark and every mark after it are dropped
MarksCutAt(prev, markId) ==
  IF \E k \in DOMAIN prev : prev[k].id = markId
  THEN SubSeq(prev, 1, (CHOOSE k \in DOMAIN prev :
                          /\ prev[k].id = markId
                          /\ \A j \in 1..(k - 1) : prev[j].id # markId) - 1)
  ELSE prev

\* setMarks(prev => prev.filter(m => m.id !== markId))
MarksWithout(prev, markId) ==
  LET Keep(m) == m.id # markId IN SelectSeq(prev, Keep)

\* the mark addMark builds
ManualMark(x, y, pageIndex, time) ==
  [id |-> [kind |-> "manual", at |-> time],
   x |-> x, y |-> y, status |-> "correct", pageIndex |-> pageIndex]

\* faulty variant: the new mark goes in front
MarksWithInFront(prev, x, y, pageIndex, time) ==
  <<ManualMark(x, y, pageIndex, time)>> \o prev

\* setMarks(prev => [...prev, newMark])
MarksWith(prev, x, y, pageIndex, time) ==
  Append(prev, ManualMark(x, y, pageIndex, time))

\* marks.filter(m => m.pageIndex === activePageIndex): the marks on screen
MarksOfPage(ms, pageIndex) ==
  LET OnPage(m) == m.pageIndex = pageIndex IN SelectSeq(ms, OnPage)

\* faulty variant: the canvas stays on screen while the report is generated
CanvasShownWhileExporting ==
  /\ status \in {"REVIEWING", "EXPORTING"}
  /\ activePageIndex < Len(pages)

\* GradingCanvas is rendered, over a page that exists
CanvasShown ==
  /\ status = "REVIEWING"
  /\ activePageIndex < Len(pages)

\* ((client - rect.origin) / rect.side) * 100 for a rectangle whose side is
\* a power of two: both operations are exact in binary64
PercentOf(d, side) ==
  Num((100 * d) \div side, ((100 * d) % side) * (Limb \div side), 0)

\* Math.min(a, b) and Math.max(a, b)
MathMin(a, b) == IF Less(b, a) THEN b ELSE a
MathMax(a, b) == IF Less(a, b) THEN b ELSE a

\* faulty variant: no clamp
Unclamped(v) == v

\* Math.max(0, Math.min(100, v))
Clamp(v) == MathMax(FromInt(0), MathMin(FromInt(100), v))

UnchangedByEdit ==
  UNCHANGED <<status, pages, activePageIndex, isStudentFormOpen, downloadUrl,
              pdfBlob, studentInfo, isSharing, grading, serviceLog, now, liveUrls,
              apiKeyConfigured>>

\* the badge of a mark on screen is pressed
ToggleNote(markId) ==
  /\ CanvasShown
  /\ \E m \in Range(MarksOfPage(marks, activePageIndex)) : m.id = markId
  /\ expandedMarkId' = IF expandedMarkId = markId THEN Null ELSE markId
  /\ UNCHANGED marks
  /\ UnchangedByEdit

\* a click on the image while a note is open closes the note
HandleImageClickClosesNote ==
  /\ CanvasShown
  /\ ~isStudentFormOpen
  /\ expandedMarkId # Null
  /\ expandedMarkId' = Null
  /\ UNCHANGED marks
  /\ UnchangedByEdit

\* a click at offset (dx, dy) from the corner of the image rectangle, inside
\* the rectangle or not: handleImageClick, then addMark
HandleImageClick(dx, dy, side) ==
  /\ CanvasShown
  /\ ~isStudentFormOpen
  /\ expandedMarkId = Null
  /\ Cardinality({k \in DOMAIN marks : marks[k].id.kind = "manual"}) < MaxManualMarks
  /\ marks' = MarksWith(marks, Clamp(PercentOf(dx, side)), Clamp(PercentOf(dy, side)),
                        activePageIndex, now)
  /\ UNCHANGED expandedMarkId
  /\ UnchangedByEdit

\* the status button of the open note: handleMarkStatusToggle, then updateMark
HandleMarkStatusToggle(mark) ==
  /\ CanvasShown
  /\ mark \in Range(MarksOfPage(marks, activePageIndex))
  /\ expandedMarkId = mark.id
  /\ marks' = UpdatedMarks(marks, [mark EXCEPT !.status =
                 IF mark.status = "correct" THEN "incorrect" ELSE "correct"])
  /\ UNCHANGED expandedMarkId
  /\ UnchangedByEdit

\* the trash button of the open note: removeMark
HandleRemoveMark(mark) ==
  /\ CanvasShown
  /\ mark \in Range(MarksOfPage(marks, activePageIndex))
  /\ expandedMarkId = mark.id
  /\ marks' = MarksWithout(marks, mark.id)
  /\ UNCHANGED expandedMarkId
  /\ UnchangedByEdit

\* a page tab
SetActivePageIndex(idx) ==
  /\ status = "REVIEWING"
  /\ Len(pages) > 1
  /\ idx \in 0..(Len(pages) - 1)
  /\ activePageIndex' = idx
  /\ UNCHANGED <<status, pages, marks, isStudentFormOpen, downloadUrl, pdfBlob,
                 studentInfo, isSharing, expandedMarkId, grading, serviceLog, now,
                 liveUrls, apiKeyConfigured>>

\* a millisecond passes
Tick ==
  /\ now < MaxTime
  /\ now' = now + 1
  /\ UNCHANGED <<status, pages, marks, activePageIndex, isStudentFormOpen,
                 downloadUrl, pdfBlob, studentInfo, isSharing, expandedMarkId,
                 grading, serviceLog, liveUrls, apiKeyConfigured>>

\* faulty variant: the page on screen is not set back to the first
ResetAppKeepingActivePage ==
  /\ status \in {"REVIEWING", "COMPLETED"}
  /\ liveUrls' = liveUrls \ (BlobKeys(pages)
                   \cup (IF downloadUrl # Null THEN {downloadUrl.key} ELSE {}))
  /\ pages' = <<>>
  /\ marks' = <<>>
  /\ status' = "IDLE"
  /\ downloadUrl' = Null
  /\ pdfBlob' = Null
  /\ studentInfo' = Null
  /\ isSharing' = FALSE
  /\ expandedMarkId' = Null
  /\ UNCHANGED <<activePageIndex, isStudentFormOpen, grading, serviceLog, now,
                 apiKeyConfigured>>

\* Cancel (while reviewing) or Start Over (when completed)
ResetApp ==
  /\ status \in {"REVIEWING", "COMPLETED"}
  /\ liveUrls' = liveUrls \ (BlobKeys(pages)
                   \cup (IF downloadUrl # Null THEN {downloadUrl.key} ELSE {}))
  /\ pages' = <<>>
  /\ marks' = <<>>
  /\ status' = "IDLE"
  /\ downloadUrl' = Null
  /\ pdfBlob' = Null
  /\ studentInfo' = Null
  /\ activePageIndex' = 0
  /\ isSharing' = FALSE
  /\ expandedMarkId' = Null
  /\ UNCHANGED <<isStudentFormOpen, grading, serviceLog, now, apiKeyConfigured>>

AppInit ==
  /\ status = "IDLE"
  /\ pages = <<>>
  /\ marks = <<>>
  /\ activePageIndex = 0
  /\ isStudentFormOpen = FALSE
  /\ downloadUrl = Null
  /\ pdfBlob = Null
  /\ studentInfo = Null
  /\ isSharing = FALSE
  /\ expandedMarkId = Null
  /\ grading = NotGrading
  /\ serviceLog = <<>>
  /\ now = 0
  /\ liveUrls = {}

RotIdle == rotCase = [orig |-> [x |-> FromInt(0), y |-> FromInt(0)],
                      cur |-> [x |-> FromInt(0), y |-> FromInt(0)],
                      applied |-> <<>>]

NoCall == [op |-> "none"]

NotGenerating == [pc |-> "idle", pages |-> <<>>, marks |-> <<>>, i |-> 0, doc |-> <<>>]

NoWrap == [pc |-> "idle"]

NoShare == [pc |-> "idle"]

HarnessIdle ==
  /\ RotIdle
  /\ editorCall = NoCall
  /\ generating = NotGenerating
  /\ wrapCall = NoWrap
  /\ shareCall = NoShare

(* one batch after another through the grading service *)

GradingInit ==
  /\ AppInit
  /\ apiKeyConfigured \in BOOLEAN
  /\ HarnessIdle

GradingNext ==
  \/ \E files \in FileLists : HandleFilesSelected(files) /\ UNCHANGED restVars
  \/ GradeWithoutApiKey /\ UNCHANGED restVars
  \/ GradePageFails /\ UNCHANGED restVars
  \/ GradePageEmpty /\ UNCHANGED restVars
  \/ \E result \in Responses : GradePage(result) /\ UNCHANGED restVars
  \/ \E result \in Responses : GradePageRotateFails(result) /\ UNCHANGED restVars
  \/ FilesGraded /\ UNCHANGED restVars

SpecGrading == GradingInit /\ [][GradingNext]_vars

InRange(v) == ~Less(v, FromInt(0)) /\ ~Less(FromInt(100), v)

\* what C3 says of the marks ms stored for a batch whose responses were log
StoredAsRemapped(log, ms) ==
  \A k \in 1..Len(log) :
    ("rotation_needed" \in DOMAIN log[k] /\ log[k].rotation_needed \in Rotations) =>
      LET r      == log[k].rotation_needed
          raw    == log[k].marks
          stored == MarksOfPage(ms, k - 1)
      IN  /\ Len(stored) = Len(raw)
          /\ \A j \in 1..Len(raw) :
               /\ r = 90 => stored[j].x = HundredMinus(raw[j].y) /\ stored[j].y = raw[j].x
               /\ r = 180 => /\ stored[j].x = HundredMinus(raw[j].x)
                             /\ stored[j].y = HundredMinus(raw[j].y)
               /\ r = 270 => stored[j].x = raw[j].y /\ stored[j].y = HundredMinus(raw[j].x)
               /\ (r = 90 /\ raw[j].x = FromInt(10) /\ raw[j].y = FromInt(20))
                    => stored[j].x = FromInt(80) /\ stored[j].y = FromInt(10)

\* C3: when a graded batch is stored in the session, every mark the service
\* reported at (x, y) on a page with rotation_needed r in {90, 180, 270} is
\* stored, in the service's order, at (100 - y, x) for 90, (100 - x, 100 - y)
\* for 180 and (y, 100 - x) for 270; rotation 90 maps (10, 20) to (80, 10).
C3_RemappedMarksStored ==
  [][(status = "PROCESSING" /\ status' = "REVIEWING")
       => StoredAsRemapped(serviceLog, marks')]_vars

\* a one-page batch whose page was turned by 90 degrees and whose mark
\* (10, 20) is stored at (80, 10)
C3_Witness ==
  /\ status = "REVIEWING"
  /\ Len(pages) = 1
  /\ pages[1].imageUrl.kind = "data"
  /\ pages[1].imageUrl.w = Photo.h
  /\ Len(marks) = 1
  /\ marks[1].x = FromInt(80)
  /\ marks[1].y = FromInt(10)
  /\ marks[1].pageIndex = 0

\* the text C11 expects in a field of a stored mark: the text the service
\* supplied, or the placeholder when it supplied none (no field, or an empty
\* string)
ExpectedText(raw, key, placeholder) ==
  IF key \in DOMAIN raw /\ Len(raw[key]) > 0 THEN raw[key] ELSE placeholder

\* what C11 says of the marks ms stored for a batch whose responses were log
StoredWithTexts(log, ms) ==
  \A k \in 1..Len(log) :
    "marks" \in DOMAIN log[k] =>
      LET zh     == "detected_language" \in DOMAIN log[k] /\ log[k].detected_language = "zh"
          raw    == log[k].marks
          stored == MarksOfPage(ms, k - 1)
      IN  /\ Len(stored) = Len(raw)
          /\ \A j \in 1..Len(raw) :
               /\ stored[j].question =
                    ExpectedText(raw[j], "question", IF zh THEN <<"ti", "mu">> ELSE QuestionEn)
               /\ stored[j].studentAnswer =
                    ExpectedText(raw[j], "student_answer",
                                 IF zh THEN <<"wei", "zhi">> ELSE UnknownEn)
               /\ stored[j].correctAnswer = ExpectedText(raw[j], "correct_answer", <<"-">>)
               /\ stored[j].explanation =
                    ExpectedText(raw[j], "explanation",
                                 IF zh THEN <<"wu", "jie", "xi">> ELSE NoExplanationEn)
               /\ Len(stored[j].question) > 0
               /\ Len(stored[j].studentAnswer) > 0
               /\ Len(stored[j].correctAnswer) > 0
               /\ Len(stored[j].explanation) > 0

\* C11: when a graded batch is stored in the session, every mark made from
\* the service output has its four text fields non-empty: a field the service
\* supplied (non-empty) is kept, a field it did not supply (absent, or an
\* empty string) holds the placeholder of the page's detected language, the
\* English one when no language or another language was reported, and "-"
\* for the correct answer.
C11_TextFieldsDefaulted ==
  [][(status = "PROCESSING" /\ status' = "REVIEWING")
       => StoredWithTexts(serviceLog, marks')]_vars

\* scenario C: a page reported as zh with a mark that has no text field
C11_Witness ==
  /\ status = "REVIEWING"
  /\ Len(pages) = 1
  /\ "detectedLanguage" \in DOMAIN pages[1]
  /\ pages[1].detectedLanguage = "zh"
  /\ Len(marks) = 1
  /\ marks[1].question = <<"ti", "mu">>
  /\ marks[1].studentAnswer = <<"wei", "zhi">>
  /\ marks[1].correctAnswer = <<"-">>
  /\ marks[1].explanation = <<"wu", "jie", "xi">>

\* what C12 says of the pages ps and marks ms stored for a batch whose pages
\* were ingested as initialPages and whose responses were log
StoredUnrotated(log, initialPages, ps, ms) ==
  \A k \in 1..Len(log) :
    ("rotation_needed" \in DOMAIN log[k] /\ log[k].rotation_needed = 0) =>
      LET raw    == log[k].marks
          stored == MarksOfPage(ms, k - 1)
      IN  /\ ps[k].imageUrl = initialPages[k].imageUrl
          /\ ps[k].file = initialPages[k].file
          /\ ps[k].id = initialPages[k].id
          /\ "detectedLanguage" \in DOMAIN ps[k]
          /\ ps[k].detectedLanguage \in {"en", "zh"}
          /\ "detected_language" \in DOMAIN log[k]
               => ps[k].detectedLanguage = log[k].detected_language
          /\ Len(stored) = Len(raw)
          /\ \A j \in 1..Len(raw) : stored[j].x = raw[j].x /\ stored[j].y = raw[j].y

\* C12: when a graded batch is stored in the session, every page for which
\* the service asked for rotation 0 keeps the image (and file and id) it was
\* ingested with, its marks are stored with exactly the coordinates the
\* service reported, and its detected-language tag is set (to the reported
\* language, or to en when none was reported).
C12_UnrotatedPageKept ==
  [][(status = "PROCESSING" /\ status' = "REVIEWING")
       => StoredUnrotated(serviceLog, pages, pages', marks')]_vars

\* a batch of two pages: the first with rotation 0, tagged zh, its mark stored
\* at the reported (0.1, 100); the second turned
C12_Witness ==
  /\ status = "REVIEWING"
  /\ Len(pages) = 2
  /\ pages[1].imageUrl = BlobUrl(pages[1].imageUrl.key, Photo)
  /\ "detectedLanguage" \in DOMAIN pages[1]
  /\ pages[1].detectedLanguage = "zh"
  /\ pages[2].imageUrl.kind = "data"
  /\ \E k \in DOMAIN marks :
       marks[k].pageIndex = 0 /\ marks[k].x = Tenth /\ marks[k].y = FromInt(100)

\* a step that ends a call of gradeExamPages without a result
GradingFailed ==
  /\ status = "PROCESSING"
  /\ grading.pc = "running"
  /\ grading'.pc = "idle"
  /\ status' # "REVIEWING"

\* C15: a step on which grading fails (no API key, a service error, a
\* malformed response, an image that cannot be rotated), on any page of the
\* batch and whatever was graded before it, leaves status IDLE, the pages of
\* the session equal to the pages ingested (their images the object URLs of
\* the files, none rotated, no language tag) and the mark collection empty.
C15_FailedBatchLeavesNothing ==
  [][GradingFailed =>
       /\ status' = "IDLE"
       /\ pages' = grading.pages
       /\ \A k \in DOMAIN pages' :
            /\ pages'[k].imageUrl = BlobUrl(pages'[k].imageUrl.key, pages'[k].file)
            /\ "detectedLanguage" \notin DOMAIN pages'[k]
       /\ marks' = <<>>]_vars

\* grading failed on a batch of two pages: the session is idle, holds the two
\* pages as ingested and no mark
C15_Witness ==
  /\ status = "IDLE"
  /\ grading.pc = "idle"
  /\ Len(pages) = 2
  /\ pages[1].imageUrl = BlobUrl(pages[1].imageUrl.key, Photo)
  /\ pages[2].imageUrl.kind = "blob"
  /\ marks = <<>>

(* a batch is graded and its marks are edited *)

EditingFileLists == {<<Photo>>}

EditingResponses ==
  {r \in Responses : r.marks = <<FullMark>> /\ "detected_language" \notin DOMAIN r}

EditingInit ==
  /\ AppInit
  /\ apiKeyConfigured = TRUE
  /\ HarnessIdle

EditingNext ==
  \/ \E files \in EditingFileLists : HandleFilesSelected(files) /\ UNCHANGED restVars
  \/ GradePageFails /\ UNCHANGED restVars
  \/ \E result \in EditingResponses : GradePage(result) /\ UNCHANGED restVars
  \/ FilesGraded /\ UNCHANGED restVars
  \/ \E m \in Range(marks) : ToggleNote(m.id) /\ UNCHANGED restVars
  \/ HandleImageClickClosesNote /\ UNCHANGED restVars
  \/ \E c \in ClickOffsets : HandleImageClick(c.dx, c.dy, RectSide) /\ UNCHANGED restVars
  \/ \E m \in Range(marks) : HandleMarkStatusToggle(m) /\ UNCHANGED restVars
  \/ \E m \in Range(marks) : HandleRemoveMark(m) /\ UNCHANGED restVars
  \/ Tick /\ UNCHANGED restVars
  \/ ResetApp /\ UNCHANGED restVars

SpecEditing == EditingInit /\ [][EditingNext]_vars

\* C4: no two marks of the collection share an id.
C4_NoTwoMarksShareAnId ==
  \A j, k \in DOMAIN marks : j # k => marks[j].id # marks[k].id

\* C6: every mark of the collection has x and y in [0,100]: the marks made
\* from the service's (which reports coordinates in [0,100]), remapped or
\* not, and the marks added by a click anywhere, inside the image rectangle or
\* outside it.
C6_MarksInRange ==
  \A k \in DOMAIN marks : InRange(marks[k].x) /\ InRange(marks[k].y)

\* the page was rotated, its mark is in the collection, and two clicks
\* outside the rectangle added marks at (0, 12.5) and (100, 0)
C6_Witness ==
  /\ status = "REVIEWING"
  /\ pages[1].imageUrl.kind = "data"
  /\ \E k \in DOMAIN marks : marks[k].id.kind = "mark"
  /\ \E k \in DOMAIN marks :
       /\ marks[k].id.kind = "manual"
       /\ marks[k].x = FromInt(0)
       /\ marks[k].y = Num(12, 2^27, 0)
  /\ \E k \in DOMAIN marks :
       /\ marks[k].id.kind = "manual"
       /\ marks[k].x = FromInt(100)
       /\ marks[k].y = FromInt(0)

\* C19: a reset (Cancel while reviewing, Start Over when completed) leaves
\* the session with no page, no mark, no document, no student info and status
\* IDLE, and no object URL created in the session is left allocated, the one
\* of the original image of a page that was rotated included.
C19_ResetReleasesEverything ==
  [][(status \in {"REVIEWING", "COMPLETED"} /\ status' = "IDLE") =>
       /\ pages' = <<>>
       /\ marks' = <<>>
       /\ pdfBlob' = Null
       /\ downloadUrl' = Null
       /\ studentInfo' = Null
       /\ liveUrls' = {}]_vars

(* the mark editor called directly: add, update and remove with any
   arguments, on the marks of a graded one-page batch *)

UnchangedByCall ==
  UNCHANGED <<status, pages, activePageIndex, isStudentFormOpen, downloadUrl,
              pdfBlob, studentInfo, isSharing, expandedMarkId, grading, serviceLog,
              now, liveUrls, apiKeyConfigured, generating, wrapCall, shareCall,
              rotCase>>

\* addMark(x, y, pageIndex)
AddMark(x, y, pageIndex) ==
  /\ Cardinality({k \in DOMAIN marks : marks[k].id.kind = "manual"}) < MaxManualMarks
  /\ marks' = MarksWith(marks, x, y, pageIndex, now)
  /\ editorCall' = [op |-> "add", x |-> x, y |-> y, pageIndex |-> pageIndex]
  /\ UnchangedByCall

\* updateMark(updatedMark)
UpdateMark(updatedMark) ==
  /\ marks' = UpdatedMarks(marks, updatedMark)
  /\ editorCall' = [op |-> "update", mark |-> updatedMark]
  /\ UnchangedByCall

\* removeMark(markId)
RemoveMark(markId) ==
  /\ marks' = MarksWithout(marks, markId)
  /\ editorCall' = [op |-> "remove", markId |-> markId,
                     present |-> \E k \in DOMAIN marks : marks[k].id = markId]
  /\ UnchangedByCall

\* the marks a caller can pass to updateMark: a mark of the collection, or a
\* mark made at any time of the clock, with either status
UpdateArgs ==
  {[m EXCEPT !.status = st] :
     m \in Range(marks) \cup {ManualMark(FromInt(20), FromInt(10), 0, t) : t \in 0..MaxTime},
     st \in {"correct", "incorrect"}}

RemoveArgs ==
  {m.id : m \in Range(marks)} \cup {[kind |-> "manual", at |-> t] : t \in 0..MaxTime}

AddArgs ==
  {[x |-> FromInt(20), y |-> FromInt(10), pageIndex |-> 0],
   [x |-> Tenth, y |-> FromInt(100), pageIndex |-> 1]}

\* the session after a one-page batch was graded
MarksInit ==
  /\ \E result \in EditingResponses :
       LET initialPages == <<[id |-> 1, imageUrl |-> BlobUrl(1, Photo), file |-> Photo]>>
           g == GradedPage([pc |-> "running", pages |-> initialPages, i |-> 0,
                            allMarks |-> <<>>, processedPages |-> initialPages],
                           result, Fresh({}, Len(result.marks)))
       IN  /\ pages = g.processedPages
           /\ marks = g.allMarks
  /\ status = "REVIEWING"
  /\ liveUrls = {1}
  /\ activePageIndex = 0
  /\ isStudentFormOpen = FALSE
  /\ downloadUrl = Null
  /\ pdfBlob = Null
  /\ studentInfo = Null
  /\ isSharing = FALSE
  /\ expandedMarkId = Null
  /\ grading = NotGrading
  /\ serviceLog = <<>>
  /\ now = 0
  /\ apiKeyConfigured = TRUE
  /\ HarnessIdle

MarksNext ==
  \/ \E a \in AddArgs : AddMark(a.x, a.y, a.pageIndex)
  \/ \E m \in UpdateArgs : UpdateMark(m)
  \/ \E id \in RemoveArgs : RemoveMark(id)
  \/ Tick /\ UNCHANGED restVars

SpecMarks == MarksInit /\ [][MarksNext]_vars

MarkIds(ms) == {ms[k].id : k \in DOMAIN ms}

\* C5: a call of update with a mark whose id is not in the collection (never
\* added, or removed before) leaves the collection exactly as it was.
C5_UpdateOfUnknownIdChangesNothing ==
  [][\A m \in UpdateArgs :
       (UpdateMark(m) /\ m.id \notin MarkIds(marks)) => marks' = marks]_vars

\* update was called with a mark whose id is not in the collection, while the
\* collection holds other marks
C5_Witness ==
  /\ editorCall.op = "update"
  /\ editorCall.mark.id \notin MarkIds(marks)
  /\ Len(marks) >= 2

TextFields == {"question", "studentAnswer", "correctAnswer", "explanation"}

\* C13: a call add(x, y, pageIndex) leaves the marks already in the collection
\* as they were, in the same order, and puts exactly one mark after them, with
\* the x, y and pageIndex given, status correct and none of the four text
\* fields.
C13_AddAppendsOneMark ==
  [][\A a \in AddArgs :
       AddMark(a.x, a.y, a.pageIndex) =>
         /\ Len(marks') = Len(marks) + 1
         /\ SubSeq(marks', 1, Len(marks)) = marks
         /\ LET m == marks'[Len(marks')]
            IN  /\ m.x = a.x
                /\ m.y = a.y
                /\ m.pageIndex = a.pageIndex
                /\ m.status = "correct"
                /\ DOMAIN m \cap TextFields = {}]_vars

\* add was called on a collection holding two marks, and the mark it made is
\* the third
C13_Witness ==
  /\ editorCall.op = "add"
  /\ Len(marks) = 3
  /\ marks[1].id.kind = "mark"
  /\ marks[3].id.kind = "manual"
  /\ marks[3].x = editorCall.x
  /\ marks[3].pageIndex = editorCall.pageIndex

\* the marks of ms whose id is not id, in order
RECURSIVE OthersInOrder(_, _)
OthersInOrder(ms, id) ==
  IF ms = <<>> THEN <<>>
  ELSE IF Head(ms).id = id THEN OthersInOrder(Tail(ms), id)
  ELSE <<Head(ms)>> \o OthersInOrder(Tail(ms), id)

\* C14: a call remove(markId) leaves no mark with that id in the collection,
\* changes nothing when there was none, and in both cases keeps every mark
\* with another id, unchanged and in the same relative order.
C14_RemoveDeletesOnlyThatId ==
  [][\A id \in RemoveArgs :
       RemoveMark(id) =>
         /\ id \notin MarkIds(marks')
         /\ id \notin MarkIds(marks) => marks' = marks
         /\ marks' = OthersInOrder(marks, id)]_vars

\* remove was called with the id of a mark added by hand that was in the
\* collection; the mark of the service and another mark added by hand remain
C14_Witness ==
  /\ editorCall.op = "remove"
  /\ editorCall.present
  /\ editorCall.markId.kind = "manual"
  /\ Len(marks) = 2
  /\ marks[1].id.kind = "mark"
  /\ marks[2].id.kind = "manual"

----------------------------------------------------------------------------
(* wrapText *)

\* the characters drawn two to the em (full-width, CJK); the others one
\* to the em of the font in tenths: 10 and 5
WideChars == {"ti", "mu", "wei", "zhi", "wu", "jie", "xi"}

CharEm(c) == IF c \in WideChars THEN 10 ELSE 5

RECURSIVE SumEm(_)
SumEm(line) == IF line = <<>> THEN 0 ELSE CharEm(Head(line)) + SumEm(Tail(line))

\* ctx.measureText(line).width under a font of fontSize pixels, in tenths of
\* a pixel
MeasureText(line, fontSize) == fontSize * SumEm(line)

\* pixels as twentieths of a pixel
Px(n) == 20 * n

\* the locals of wrapText before its loop
WrapStart(text, x, y, maxWidth, lineHeight, fontSize) ==
  [text |-> text, x |-> x, y |-> y, maxWidth |-> maxWidth,
   lineHeight |-> lineHeight, fontSize |-> fontSize,
   i |-> 0, line |-> <<>>, currentY |-> y, drawn |-> <<>>]

\* testWidth > maxWidth && i > 0
WrapBreaks(s) ==
  /\ MeasureText(Append(s.line, s.text[s.i + 1]), s.fontSize) > 10 * s.maxWidth
  /\ s.i > 0

\* one iteration of the loop
WrapIter(s) ==
  IF WrapBreaks(s)
  THEN [s EXCEPT !.drawn = Append(@, [text |-> s.line, x |-> s.x, y |-> s.currentY]),
                 !.line = <<s.text[s.i + 1]>>,
                 !.currentY = @ + s.lineHeight,
                 !.i = @ + 1]
  ELSE [s EXCEPT !.line = Append(@, s.text[s.i + 1]),
                 !.i = @ + 1]

RECURSIVE WrapLoop(_)
WrapLoop(s) == IF s.i < Len(s.text) THEN WrapLoop(WrapIter(s)) ELSE s

\* the last fillText and the value returned
WrapEnd(s) ==
  [y |-> s.currentY + s.lineHeight,
   drawn |-> Append(s.drawn, [text |-> s.line, x |-> s.x, y |-> s.currentY])]

\* wrapText(ctx, text, x, y, maxWidth, lineHeight) under the font set on ctx:
\* the lines drawn and the cursor returned
WrapText(text, x, y, maxWidth, lineHeight, fontSize) ==
  WrapEnd(WrapLoop(WrapStart(text, x, y, maxWidth, lineHeight, fontSize)))

----------------------------------------------------------------------------
(* generateGradedPDF *)

SidebarPadding == 40
HeaderY == 60
HeaderAdvance == 60
BlockGap == 5

\* faulty variant: the sidebar is 40% of the image width
SidebarWidthTwoFifths(originalWidth) == (2 * originalWidth) \div 5

\* Math.floor(originalWidth * 0.45)
SidebarWidth(originalWidth) == (9 * originalWidth) \div 20

SidebarContentWidth(originalWidth) == SidebarWidth(originalWidth) - SidebarPadding * 2

\* Math.floor(originalWidth * 0.015)
BaseFontSize(originalWidth) == (3 * originalWidth) \div 200

\* baseFontSize * 1.5, in twentieths of a pixel
LineHeight(baseFontSize) == 30 * baseFontSize

\* the sign of a.y - b.y
CompareY(a, b) == IF Less(a.y, b.y) THEN -1 ELSE IF Less(b.y, a.y) THEN 1 ELSE 0

\* faulty variant: a mark goes before the marks of equal y
RECURSIVE InsertBeforeEqual(_, _)
InsertBeforeEqual(sorted, m) ==
  IF sorted = <<>> THEN <<m>>
  ELSE IF CompareY(m, Head(sorted)) <= 0 THEN <<m>> \o sorted
  ELSE <<Head(sorted)>> \o InsertBeforeEqual(Tail(sorted), m)

\* m placed after the marks that do not compare greater than it
RECURSIVE InsertByY(_, _)
InsertByY(sorted, m) ==
  IF sorted = <<>> THEN <<m>>
  ELSE IF CompareY(m, Head(sorted)) < 0 THEN <<m>> \o sorted
  ELSE <<Head(sorted)>> \o InsertByY(Tail(sorted), m)

\* .sort((a, b) => a.y - b.y): Array.prototype.sort is stable (ES2019)
RECURSIVE SortByY(_)
SortByY(ms) ==
  IF ms = <<>> THEN <<>>
  ELSE InsertByY(SortByY(SubSeq(ms, 1, Len(ms) - 1)), ms[Len(ms)])

\* rec.key is truthy, for a string
Truthy(rec, key) == key \in DOMAIN rec /\ rec[key] # <<>>

AnsPrefix == <<"A", "n", "s", ":", " ">>
CorrectPrefix == <<"C", "o", "r", "r", "e", "c", "t", ":", " ">>
NotePrefix == <<"N", "o", "t", "e", ":", " ">>

NoBlock(y) == [y |-> y, drawn |-> <<>>]

\* the body of pageMarks.forEach for one mark, the cursor being at cursor:
\* the text blocks written and the cursor after the spacing
MarkItem(mark, cursor, originalWidth) ==
  LET baseFontSize == BaseFontSize(originalWidth)
      lineHeight   == LineHeight(baseFontSize)
      maxWidth     == SidebarContentWidth(originalWidth)
      sidebarX     == originalWidth + SidebarPadding
      q == WrapText(OrText(mark, "question", QuestionEn), sidebarX, cursor,
                    maxWidth, lineHeight, baseFontSize)
      a == WrapText(AnsPrefix \o OrText(mark, "studentAnswer", <<>>), sidebarX,
                    q.y + Px(BlockGap), maxWidth, lineHeight, baseFontSize)
      c == IF mark.status = "incorrect" /\ Truthy(mark, "correctAnswer")
           THEN WrapText(CorrectPrefix \o mark.correctAnswer, sidebarX,
                         a.y + Px(BlockGap), maxWidth, lineHeight, baseFontSize)
           ELSE NoBlock(a.y)
      e == IF Truthy(mark, "explanation")
           THEN WrapText(NotePrefix \o mark.explanation, sidebarX,
                         c.y + Px(BlockGap), maxWidth, (lineHeight * 9) \div 10,
                         (9 * baseFontSize) \div 10)
           ELSE NoBlock(c.y)
      Block(kind, w) == IF w.drawn = <<>> THEN <<>> ELSE <<[kind |-> kind, lines |-> w.drawn]>>
  IN  [mark |-> mark,
       connectorY |-> cursor + Px(baseFontSize),
       blocks |-> Block("question", q) \o Block("studentAnswer", a)
                    \o Block("correctAnswer", c) \o Block("explanation", e),
       cursorAfter |-> e.y + (lineHeight * 3) \div 2]

\* pageMarks.forEach(...): the items drawn, from the cursor on
RECURSIVE MarkItems(_, _, _)
MarkItems(pageMarks, cursor, originalWidth) ==
  IF pageMarks = <<>> THEN <<>>
  ELSE LET item == MarkItem(Head(pageMarks), cursor, originalWidth)
       IN  <<item>> \o MarkItems(Tail(pageMarks), item.cursorAfter, originalWidth)

\* the canvas of page number i once everything is drawn on it
Surface(i, page, ms) ==
  LET originalWidth  == page.imageUrl.w
      originalHeight == page.imageUrl.h
      pageMarks      == SortByY(MarksOfPage(ms, i))
  IN  [page |-> i,
       image |-> page.imageUrl,
       width |-> originalWidth + SidebarWidth(originalWidth),
       height |-> originalHeight,
       items |-> MarkItems(pageMarks, Px(HeaderY + HeaderAdvance), originalWidth)]

\* pdf.addPage([width, height], orientation): jsPDF exchanges the two sizes
\* when they contradict the orientation
AddPage(width, height, orientation) ==
  IF (orientation = "l" /\ height > width) \/ (orientation = "p" /\ width > height)
  THEN [width |-> height, height |-> width]
  ELSE [width |-> width, height |-> height]

\* pdf.addPage(...) and pdf.addImage(...) for a canvas
DocumentPage(surface) ==
  LET size == AddPage(surface.width, surface.height,
                      IF surface.width > surface.height THEN "l" ELSE "p")
  IN  [width |-> size.width, height |-> size.height,
       image |-> [x |-> 0, y |-> 0, width |-> surface.width,
                  height |-> surface.height, surface |-> surface]]

\* the Approve button
HandleApprove ==
  /\ status = "REVIEWING"
  /\ ~isStudentFormOpen
  /\ isStudentFormOpen' = TRUE
  /\ UNCHANGED <<status, pages, marks, activePageIndex, downloadUrl, pdfBlob,
                 studentInfo, isSharing, expandedMarkId, grading, serviceLog, now,
                 liveUrls, apiKeyConfigured, generating>>

\* the Cancel button of the form: onCancel
CloseStudentForm ==
  /\ isStudentFormOpen
  /\ isStudentFormOpen' = FALSE
  /\ UNCHANGED <<status, pages, marks, activePageIndex, downloadUrl, pdfBlob,
                 studentInfo, isSharing, expandedMarkId, grading, serviceLog, now,
                 liveUrls, apiKeyConfigured, generating>>

\* the form is submitted: handleFinalSubmit up to the call of generateGradedPDF
HandleFinalSubmit(info) ==
  /\ isStudentFormOpen
  /\ generating.pc = "idle"
  /\ isStudentFormOpen' = FALSE
  /\ status' = "EXPORTING"
  /\ studentInfo' = info
  /\ generating' = [pc |-> "running", pages |-> pages, marks |-> marks, i |-> 0,
                    doc |-> <<>>]
  /\ UNCHANGED <<pages, marks, activePageIndex, downloadUrl, pdfBlob, isSharing,
                 expandedMarkId, grading, serviceLog, now, liveUrls,
                 apiKeyConfigured>>

PageInExport ==
  /\ generating.pc = "running"
  /\ generating.i < Len(generating.pages)

ExportingPage == generating.pages[generating.i + 1]

UnchangedByExportStep ==
  UNCHANGED <<status, pages, marks, activePageIndex, isStudentFormOpen, downloadUrl,
              pdfBlob, studentInfo, isSharing, expandedMarkId, grading, serviceLog,
              now, liveUrls, apiKeyConfigured>>

\* the array generateGradedPDF was given, after the marks of page number i
\* were picked and ordered: marks.filter(...) builds a new array and
\* .sort(...) reorders that one
MarksArgumentAfter(ms, i) == ms

\* one iteration of the loop: the image loads, the canvas gives a context,
\* the page is drawn and added to the document
ExportPage ==
  /\ PageInExport
  /\ ImageLoads(ExportingPage.imageUrl, liveUrls)
  /\ generating' =
       [generating EXCEPT
          !.doc = Append(@, DocumentPage(Surface(generating.i, ExportingPage,
                                                 generating.marks))),
          !.marks = MarksArgumentAfter(@, generating.i),
          !.i = @ + 1]
  /\ UnchangedByExportStep

\* one iteration of the loop: the image loads and canvas.getContext("2d")
\* returns null: continue
ExportPageWithoutContext ==
  /\ PageInExport
  /\ ImageLoads(ExportingPage.imageUrl, liveUrls)
  /\ generating' = [generating EXCEPT !.i = @ + 1]
  /\ UnchangedByExportStep

\* faulty variant: a page whose image does not load is left out and the loop
\* goes on
ExportPageImageSkipped ==
  /\ PageInExport
  /\ ~ImageLoads(ExportingPage.imageUrl, liveUrls)
  /\ generating' = [generating EXCEPT !.i = @ + 1]
  /\ UnchangedByExportStep

\* one iteration of the loop: img.onerror rejects; generateGradedPDF throws
\* and handleFinalSubmit catches
ExportPageImageFails ==
  /\ PageInExport
  /\ ~ImageLoads(ExportingPage.imageUrl, liveUrls)
  /\ generating' = NotGenerating
  /\ status' = "REVIEWING"
  /\ UNCHANGED <<pages, marks, activePageIndex, isStudentFormOpen, downloadUrl,
                 pdfBlob, studentInfo, isSharing, expandedMarkId, grading,
                 serviceLog, now, liveUrls, apiKeyConfigured>>

\* generateGradedPDF returns pdf.output("blob"); handleFinalSubmit stores it
ExportDone ==
  /\ generating.pc = "running"
  /\ generating.i = Len(generating.pages)
  /\ LET key == Fresh(liveUrls \cup BlobKeys(pages), 1)[1]
         generatedBlob == [pages |-> generating.doc]
     IN  /\ pdfBlob' = generatedBlob
         /\ downloadUrl' = [kind |-> "blob", key |-> key]
         /\ liveUrls' = liveUrls \cup {key}
  /\ status' = "COMPLETED"
  /\ generating' = NotGenerating
  /\ UNCHANGED <<pages, marks, activePageIndex, isStudentFormOpen, studentInfo,
                 isSharing, expandedMarkId, grading, serviceLog, now,
                 apiKeyConfigured>>

(* a reviewed batch is exported *)

\* the marks of one session
MaxExportMarks == 4

\* the pages of one session
MaxExportPages == 2

\* the pages a graded batch can hold: an upright photo, a photo the service
\* had turned by 90 degrees, and a file the browser cannot decode
Upright(k) ==
  [id |-> k, imageUrl |-> BlobUrl(k, Photo), file |-> Photo, detectedLanguage |-> "en"]

TurnedFile == [w |-> 300, h |-> 400, ok |-> TRUE]

Turned(k) ==
  [id |-> k, imageUrl |-> RotatedUrl(BlobUrl(k, TurnedFile), 90), file |-> TurnedFile,
   detectedLanguage |-> "zh"]

Undecodable(k) ==
  [id |-> k, imageUrl |-> BlobUrl(k, BrokenFile), file |-> BrokenFile,
   detectedLanguage |-> "en"]

ExportPageLists ==
  UNION {{[k \in 1..n |-> IF c[k] = "upright" THEN Upright(k)
                          ELSE IF c[k] = "turned" THEN Turned(k)
                          ELSE Undecodable(k)] :
            c \in [1..n -> {"upright", "turned", "undecodable"}]} : n \in 1..MaxExportPages}

\* the k-th mark of a collection: a mark of the service on the first page at
\* y = 10 or y = 90, a mark added by hand on the first page at y = 50, or a mark
\* of the service on the second page
ExportMark(c, k) ==
  IF c = "top"
    THEN NewMark([FullMark EXCEPT !.y = FromInt(10)], [id |-> 1], 0, "en", k)
  ELSE IF c = "bottom"
    THEN NewMark([BareMark EXCEPT !.y = FromInt(90)], [id |-> 1], 0, "en", k)
  ELSE IF c = "manual"
    THEN ManualMark(FromInt(20), FromInt(50), 0, k)
  ELSE NewMark(PartialMark, [id |-> 2], 1, "zh", k)

ExportMarkLists ==
  UNION {{[k \in 1..n |-> ExportMark(c[k], k)] :
            c \in [1..n -> {"top", "bottom", "manual", "second"}]} : n \in 0..MaxExportMarks}

StudentInfos == {[name |-> <<"A", " ", "B">>, email |-> <<"a", "@", "b">>]}

ExportInit ==
  /\ status = "REVIEWING"
  /\ pages \in ExportPageLists
  /\ marks \in ExportMarkLists
  /\ liveUrls = {pages[k].id : k \in DOMAIN pages}
  /\ activePageIndex = 0
  /\ isStudentFormOpen = FALSE
  /\ downloadUrl = Null
  /\ pdfBlob = Null
  /\ studentInfo = Null
  /\ isSharing = FALSE
  /\ expandedMarkId = Null
  /\ grading = NotGrading
  /\ serviceLog = <<>>
  /\ now = 0
  /\ apiKeyConfigured = TRUE
  /\ HarnessIdle

ExportNext ==
  \/ HandleApprove /\ UNCHANGED <<wrapCall, editorCall, shareCall, rotCase>>
  \/ \E info \in StudentInfos :
       HandleFinalSubmit(info) /\ UNCHANGED <<wrapCall, editorCall, shareCall, rotCase>>
  \/ ExportPage /\ UNCHANGED <<wrapCall, editorCall, shareCall, rotCase>>
  \/ ExportPageWithoutContext /\ UNCHANGED <<wrapCall, editorCall, shareCall, rotCase>>
  \/ ExportPageImageFails /\ UNCHANGED <<wrapCall, editorCall, shareCall, rotCase>>
  \/ ExportDone /\ UNCHANGED <<wrapCall, editorCall, shareCall, rotCase>>

SpecExport == ExportInit /\ [][ExportNext]_vars

\* the pages of the document being assembled, or of the document stored
DocumentPages ==
  IF generating.pc = "running" THEN generating.doc
  ELSE IF pdfBlob # Null THEN pdfBlob.pages
  ELSE <<>>

\* the marks in the order the compositor processed them on a surface
Processed(surface) == [k \in DOMAIN surface.items |-> surface.items[k].mark]

\* the position in the collection of the mark with this id
PositionOf(ms, id) == CHOOSE k \in DOMAIN ms : ms[k].id = id

\* C7: on every composited page, the marks of that page are processed in an
\* order that is non-decreasing in y, and two marks of equal y are processed
\* in their order in the mark collection; the marks processed are exactly the
\* marks of the page.
C7_SortedByYStable ==
  \A n \in DOMAIN DocumentPages :
    LET surface == DocumentPages[n].image.surface
        order   == Processed(surface)
    IN  /\ Len(order) = Len(MarksOfPage(marks, surface.page))
        /\ Range(order) = Range(MarksOfPage(marks, surface.page))
        /\ \A j, k \in DOMAIN order :
             j < k =>
               /\ ~Less(order[k].y, order[j].y)
               /\ order[j].y = order[k].y =>
                    PositionOf(marks, order[j].id) < PositionOf(marks, order[k].id)

\* the collection holds marks at y = 50, 10, 90, 10 on the first page, and the
\* page was composited with the first 10, the second 10, 50, 90
C7_Witness ==
  /\ status = "COMPLETED"
  /\ Len(marks) = 4
  /\ [k \in 1..4 |-> marks[k].y] = <<FromInt(50), FromInt(10), FromInt(90), FromInt(10)>>
  /\ \A k \in 1..4 : marks[k].pageIndex = 0
  /\ Len(pdfBlob.pages) >= 1
  /\ pdfBlob.pages[1].image.surface.page = 0
  /\ Processed(pdfBlob.pages[1].image.surface) = <<marks[2], marks[4], marks[1], marks[3]>>

C10_EveryPageInOrder ==
  status = "COMPLETED" =>
    /\ Len(pdfBlob.pages) = Len(pages)
    /\ \A k \in DOMAIN pdfBlob.pages :
         pdfBlob.pages[k].image.surface = Surface(k - 1, pages[k], marks)

\* the image of the page the export is at does not load
ImageOfExportingPageFails ==
  /\ PageInExport
  /\ ~ImageLoads(ExportingPage.imageUrl, liveUrls)

\* C16: when the image of the page the export is at fails to load, whatever
\* pages were composited before it, the next step ends the export: the status
\* goes from EXPORTING to REVIEWING and not to COMPLETED, no document and no
\* download URL is stored, and the pages and the mark collection are those the
\* export started with.
C16_FailedExportStoresNothing ==
  [][ImageOfExportingPageFails =>
       /\ status = "EXPORTING"
       /\ status' = "REVIEWING"
       /\ generating' = NotGenerating
       /\ pdfBlob' = Null
       /\ downloadUrl' = Null
       /\ pages' = generating.pages
       /\ marks' = generating.marks
       /\ pages' = pages
       /\ marks' = marks]_vars

\* an export of two pages failed at the second, after the first had been
\* composited: the session is back in review, with its marks and no document
C16_Witness ==
  /\ status = "REVIEWING"
  /\ studentInfo # Null
  /\ generating.pc = "idle"
  /\ Len(pages) = 2
  /\ ImageLoads(pages[1].imageUrl, liveUrls)
  /\ ~ImageLoads(pages[2].imageUrl, liveUrls)
  /\ Len(marks) > 0
  /\ pdfBlob = Null
  /\ downloadUrl = Null

\* the kinds of the text blocks of an item, in the order written
BlockKinds(item) == [k \in DOMAIN item.blocks |-> item.blocks[k].kind]

BlockOrder == <<"question", "studentAnswer", "correctAnswer", "explanation">>

\* the kinds of BlockOrder that are in the set, in that order
KindsAmong(kinds) == LET In(k) == k \in kinds IN SelectSeq(BlockOrder, In)

\* C18: for every mark composited, the text blocks are written in the order
\* question, student answer, correct answer, explanation, each at most once;
\* a block is written only when the mark has that field (with a text in it),
\* and the correct-answer block is written if and only if the status of the
\* mark is incorrect and the mark has a correct answer.
C18_BlocksOnlyWhenPresent ==
  \A n \in DOMAIN DocumentPages :
    LET items == DocumentPages[n].image.surface.items
    IN  \A j \in DOMAIN items :
          LET item == items[j]
              written == Range(BlockKinds(item))
          IN  /\ BlockKinds(item) = KindsAmong(written)
              /\ \A kind \in written : Truthy(item.mark, kind)
              /\ "correctAnswer" \in written <=>
                   (item.mark.status = "incorrect" /\ Truthy(item.mark, "correctAnswer"))

(* a reviewed batch is edited and exported *)

ReviewPageLists == {<<Upright(1)>>, <<Upright(1), Undecodable(2)>>}

ReviewMarkLists == {ms \in ExportMarkLists : Len(ms) <= 1}

ReviewInit ==
  /\ ExportInit
  /\ pages \in ReviewPageLists
  /\ marks \in ReviewMarkLists

ReviewNext ==
  \/ \E m \in Range(marks) : ToggleNote(m.id) /\ UNCHANGED restVars
  \/ HandleImageClickClosesNote /\ UNCHANGED restVars
  \/ \E c \in ClickOffsets : HandleImageClick(c.dx, c.dy, RectSide) /\ UNCHANGED restVars
  \/ \E m \in Range(marks) : HandleMarkStatusToggle(m) /\ UNCHANGED restVars
  \/ \E m \in Range(marks) : HandleRemoveMark(m) /\ UNCHANGED restVars
  \/ Tick /\ UNCHANGED restVars
  \/ HandleApprove /\ UNCHANGED <<wrapCall, editorCall, shareCall, rotCase>>
  \/ \E info \in StudentInfos :
       HandleFinalSubmit(info) /\ UNCHANGED <<wrapCall, editorCall, shareCall, rotCase>>
  \/ ExportPage /\ UNCHANGED <<wrapCall, editorCall, shareCall, rotCase>>
  \/ ExportPageImageFails /\ UNCHANGED <<wrapCall, editorCall, shareCall, rotCase>>
  \/ ExportDone /\ UNCHANGED <<wrapCall, editorCall, shareCall, rotCase>>

SpecReview == ReviewInit /\ [][ReviewNext]_vars

\* C20: while the status is EXPORTING, up to and including the step that ends
\* the export in COMPLETED or back in REVIEWING, no step changes the mark
\* collection (no add, update or remove takes place), and while
\* generateGradedPDF runs, the collection it was given stays as it was given,
\* in content and in order, and is the collection of the session.
C20_SnapshotDiscipline ==
  [][/\ status = "EXPORTING" => marks' = marks
     /\ generating.pc = "running" =>
          /\ status = "EXPORTING"
          /\ generating.marks = marks
          /\ generating'.pc = "running" => generating'.marks = generating.marks]_vars

\* marks were added by hand in review, the export is running and has
\* composited the first page, whose marks are not in the order of y in the
\* collection
C20_Witness ==
  /\ status = "EXPORTING"
  /\ generating.pc = "running"
  /\ generating.i = 1
  /\ \E k \in DOMAIN marks : marks[k].id.kind = "manual"
  /\ \E j, k \in DOMAIN marks :
       j < k /\ marks[j].pageIndex = 0 /\ marks[k].pageIndex = 0
             /\ Less(marks[k].y, marks[j].y)
  /\ generating.marks = marks

(* handleShare and the download link *)

\* the characters /\s/ matches, among those of the names below
Whitespace == {" ", "tab"}

\* name.replace(/\s+/g, '_'): each maximal run of whitespace becomes one "_"
RECURSIVE ReplaceWhitespaceFrom(_, _)
ReplaceWhitespaceFrom(name, k) ==
  IF k > Len(name) THEN <<>>
  ELSE (IF name[k] \notin Whitespace THEN <<name[k]>>
        ELSE IF k > 1 /\ name[k - 1] \in Whitespace THEN <<>>
        ELSE <<"_">>) \o ReplaceWhitespaceFrom(name, k + 1)

ReplaceWhitespace(name) == ReplaceWhitespaceFrom(name, 1)

ExamGradedPrefix == <<"E", "x", "a", "m", "_", "G", "r", "a", "d", "e", "d", "_">>
PdfSuffix == <<".", "p", "d", "f">>
Student == <<"S", "t", "u", "d", "e", "n", "t">>

\* handleShare: `Exam_Graded_${studentInfo.name.replace(/\s+/g, '_')}.pdf`
ShareFileName(info) == ExamGradedPrefix \o ReplaceWhitespace(info.name) \o PdfSuffix

\* the completed view:
\* `Exam_Graded_${studentInfo?.name?.replace(/\s+/g, '_') || 'Student'}.pdf`
DownloadFileName(info) ==
  LET replaced == IF info = Null THEN <<>> ELSE ReplaceWhitespace(info.name)
  IN  ExamGradedPrefix \o (IF replaced = <<>> THEN Student ELSE replaced) \o PdfSuffix

\* the download attribute of the Save to Files link, when the link is rendered
DownloadOffered == status = "COMPLETED" /\ downloadUrl # Null

UnchangedByShare ==
  UNCHANGED <<status, pages, marks, activePageIndex, isStudentFormOpen, downloadUrl,
              pdfBlob, studentInfo, expandedMarkId, grading, serviceLog, now,
              apiKeyConfigured, generating, wrapCall, editorCall, rotCase>>

\* the Share button, on a native platform or in a browser that can share
\* files: handleShare up to its first await
HandleShare(way) ==
  /\ status = "COMPLETED"
  /\ ~isSharing
  /\ pdfBlob # Null /\ studentInfo # Null
  /\ shareCall.pc # "running"
  /\ isSharing' = TRUE
  /\ shareCall' = [pc |-> "running", way |-> way, fileName |-> ShareFileName(studentInfo)]
  /\ UNCHANGED liveUrls
  /\ UnchangedByShare

\* the Share button in a browser that cannot share files: handleShare runs to
\* its end, a link to a new object URL of the document is clicked
HandleShareByDownload ==
  /\ status = "COMPLETED"
  /\ ~isSharing
  /\ pdfBlob # Null /\ studentInfo # Null
  /\ shareCall.pc # "running"
  /\ Cardinality(liveUrls) < MaxLiveUrls
  /\ liveUrls' = liveUrls \cup {Fresh(liveUrls \cup BlobKeys(pages), 1)[1]}
  /\ isSharing' = FALSE
  /\ shareCall' = [pc |-> "done", way |-> "download", fileName |-> ShareFileName(studentInfo)]
  /\ UnchangedByShare

\* the file was written and shared
ShareDone ==
  /\ shareCall.pc = "running"
  /\ isSharing' = FALSE
  /\ shareCall' = [shareCall EXCEPT !.pc = "done"]
  /\ UNCHANGED liveUrls
  /\ UnchangedByShare

\* writing or sharing threw: catch, finally
ShareFails ==
  /\ shareCall.pc = "running"
  /\ isSharing' = FALSE
  /\ shareCall' = [shareCall EXCEPT !.pc = "failed"]
  /\ UNCHANGED liveUrls
  /\ UnchangedByShare

(* a reviewed page is exported under a name and shared *)

\* the characters of the longest name
MaxNameLen == 3

Alphanumeric == {"A", "1"}

NameChars == Alphanumeric \cup Whitespace \cup {"'"}

\* the names the form accepts: the field is required
StudentNames == UNION {[1..n -> NameChars] : n \in 1..MaxNameLen}

ShareInfos == {[name |-> n, email |-> <<"a", "@", "b">>] : n \in StudentNames}

ShareInit ==
  /\ ExportInit
  /\ pages = <<Upright(1)>>
  /\ marks = <<ExportMark("top", 1)>>

ShareNext ==
  \/ HandleApprove /\ UNCHANGED <<wrapCall, editorCall, shareCall, rotCase>>
  \/ \E info \in ShareInfos :
       HandleFinalSubmit(info) /\ UNCHANGED <<wrapCall, editorCall, shareCall, rotCase>>
  \/ ExportPage /\ UNCHANGED <<wrapCall, editorCall, shareCall, rotCase>>
  \/ ExportDone /\ UNCHANGED <<wrapCall, editorCall, shareCall, rotCase>>
  \/ \E way \in {"native", "web"} : HandleShare(way)
  \/ HandleShareByDownload
  \/ ShareDone
  \/ ShareFails
  \/ ResetApp /\ UNCHANGED restVars

SpecShare == ShareInit /\ [][ShareNext]_vars

\* the name with every maximal run of characters that are not alphanumeric
\* replaced by one separator
RECURSIVE SeparatedFrom(_, _)
SeparatedFrom(name, k) ==
  IF k > Len(name) THEN <<>>
  ELSE (IF name[k] \in Alphanumeric THEN <<name[k]>>
        ELSE IF k > 1 /\ name[k - 1] \notin Alphanumeric THEN <<>>
        ELSE <<"_">>) \o SeparatedFrom(name, k + 1)

\* the part of a file name between "Exam_Graded_" and ".pdf"
DerivedPart(fileName) ==
  SubSeq(fileName, Len(ExamGradedPrefix) + 1, Len(fileName) - Len(PdfSuffix))

\* C17: the file name offered for download is "Exam_Graded_", the student
\* name with every maximal run of non-alphanumeric characters replaced by one
\* "_", and ".pdf", so that the derived part holds only alphanumeric
\* characters and single separators; and the file name a share uses is the
\* one offered for download.
C17_FileNameFromIdentifier ==
  /\ DownloadOffered =>
       LET derived == DerivedPart(DownloadFileName(studentInfo))
       IN  /\ derived = SeparatedFrom(studentInfo.name, 1)
           /\ \A k \in DOMAIN derived : derived[k] \in Alphanumeric \cup {"_"}
           /\ \A k \in DOMAIN derived :
                k > 1 => ~(derived[k] = "_" /\ derived[k - 1] = "_")
  /\ (DownloadOffered /\ shareCall.pc # "idle") =>
       shareCall.fileName = DownloadFileName(studentInfo)

(* one session after another: pages are selected, graded, reviewed, exported
   and the session is reset *)

SessionFileLists == {<<Photo>>, <<Photo, BrokenFile>>}

SessionResponses ==
  {r \in Responses : /\ "detected_language" \notin DOMAIN r
                     /\ r.rotation_needed \in {0, 90}
                     /\ r.marks = <<BareMark>>}

SessionInit ==
  /\ AppInit
  /\ apiKeyConfigured = TRUE
  /\ HarnessIdle

SessionNext ==
  \/ \E files \in SessionFileLists :
       HandleFilesSelected(files) /\ UNCHANGED restVars
  \/ GradePageFails /\ UNCHANGED restVars
  \/ \E result \in SessionResponses : GradePage(result) /\ UNCHANGED restVars
  \/ \E result \in SessionResponses : GradePageRotateFails(result) /\ UNCHANGED restVars
  \/ FilesGraded /\ UNCHANGED restVars
  \/ \E idx \in 0..(MaxPages - 1) : SetActivePageIndex(idx) /\ UNCHANGED restVars
  \/ HandleImageClick(1, 1, RectSide) /\ UNCHANGED restVars
  \/ HandleApprove /\ UNCHANGED <<wrapCall, editorCall, shareCall, rotCase>>
  \/ CloseStudentForm /\ UNCHANGED <<wrapCall, editorCall, shareCall, rotCase>>
  \/ \E info \in StudentInfos :
       HandleFinalSubmit(info) /\ UNCHANGED <<wrapCall, editorCall, shareCall, rotCase>>
  \/ ExportPage /\ UNCHANGED <<wrapCall, editorCall, shareCall, rotCase>>
  \/ ExportPageImageFails /\ UNCHANGED <<wrapCall, editorCall, shareCall, rotCase>>
  \/ ExportDone /\ UNCHANGED <<wrapCall, editorCall, shareCall, rotCase>>
  \/ ResetApp /\ UNCHANGED restVars

SpecSession == SessionInit /\ [][SessionNext]_vars

\* C21: whenever the status is COMPLETED, the document, its download URL and
\* the student info are all stored; and the status becomes COMPLETED only at
\* the end of an export that ran through all its pages, an export being
\* started (status EXPORTING) only from REVIEWING.
C21_CompletedOnlyAfterExportFromReview ==
  /\ status = "COMPLETED" =>
       (pdfBlob # Null /\ downloadUrl # Null /\ studentInfo # Null)
  /\ [][/\ status' = "COMPLETED" =>
            (pdfBlob' # Null /\ downloadUrl' # Null /\ studentInfo' # Null)
        /\ (status # "COMPLETED" /\ status' = "COMPLETED") =>
            /\ status = "EXPORTING"
            /\ generating.pc = "running"
            /\ generating.i = Len(generating.pages)
        /\ (status # "EXPORTING" /\ status' = "EXPORTING") =>
            status = "REVIEWING"]_vars

\* C22: whenever the status is REVIEWING there is at least one page and
\* activePageIndex is the index of one of them, whatever sessions, failed
\* gradings, failed exports, cancels and resets came before; and every mark
\* added by the editor carries the index of a page of the session.
C22_ActivePageExists ==
  /\ status = "REVIEWING" =>
       /\ Len(pages) > 0
       /\ activePageIndex \in 0..(Len(pages) - 1)
  /\ \A k \in DOMAIN marks :
       marks[k].id.kind = "manual" => marks[k].pageIndex \in 0..(Len(pages) - 1)

\* an earlier batch left an object URL allocated (its grading failed, or its
\* page was rotated and the session reset), then a batch of two pages was
\* graded, its second page was put on screen and a mark added to it by a
\* click, and an export of it failed: the session is in review again, on the
\* second page
C22_Witness ==
  /\ status = "REVIEWING"
  /\ Len(pages) = 2
  /\ Cardinality(liveUrls) > Len(pages)
  /\ activePageIndex = 1
  /\ studentInfo # Null
  /\ \E k \in DOMAIN marks : marks[k].id.kind = "manual" /\ marks[k].pageIndex = 1

(* wrapText called alone, one loop iteration at a time *)

\* the characters of the longest text
MaxTextLen == 4

WrapChars == {"a", "ti"}

WrapTexts == UNION {[1..n -> WrapChars] : n \in 0..MaxTextLen}

\* widths of images: the sidebar has room for text from 180 on, the font has
\* a size from 67 on
WrapImageWidths == {66, 67, 180, 201}

\* the values of maxWidth: the content width of the sidebar and two others
WrapMaxWidths(originalWidth) == {SidebarContentWidth(originalWidth), 1, 20}

\* the pairs (lineHeight, fontSize) generateGradedPDF passes for an image:
\* those of the first three blocks and those of the explanation
WrapLineHeights(originalWidth) ==
  LET baseFontSize == BaseFontSize(originalWidth)
      lineHeight   == LineHeight(baseFontSize)
  IN  {[lineHeight |-> lineHeight, fontSize |-> baseFontSize],
       [lineHeight |-> (lineHeight * 9) \div 10, fontSize |-> (9 * baseFontSize) \div 10]}

WrapInit ==
  /\ AppInit
  /\ apiKeyConfigured = TRUE
  /\ RotIdle
  /\ editorCall = NoCall
  /\ generating = NotGenerating
  /\ shareCall = NoShare
  /\ \E text \in WrapTexts, originalWidth \in WrapImageWidths :
       \E maxWidth \in WrapMaxWidths(originalWidth), f \in WrapLineHeights(originalWidth) :
         wrapCall = [pc |-> "loop", originalWidth |-> originalWidth,
                     locals |-> WrapStart(text, originalWidth + SidebarPadding,
                                          Px(HeaderY + HeaderAdvance), maxWidth,
                                          f.lineHeight, f.fontSize)]

\* an iteration that draws the line and starts the next one
WrapDrawsLine ==
  /\ wrapCall.pc = "loop"
  /\ wrapCall.locals.i < Len(wrapCall.locals.text)
  /\ WrapBreaks(wrapCall.locals)
  /\ wrapCall' = [wrapCall EXCEPT !.locals = WrapIter(@)]
  /\ UNCHANGED <<appVars, generating, editorCall, shareCall, rotCase>>

\* an iteration that appends the character to the line
WrapExtendsLine ==
  /\ wrapCall.pc = "loop"
  /\ wrapCall.locals.i < Len(wrapCall.locals.text)
  /\ ~WrapBreaks(wrapCall.locals)
  /\ wrapCall' = [wrapCall EXCEPT !.locals = WrapIter(@)]
  /\ UNCHANGED <<appVars, generating, editorCall, shareCall, rotCase>>

\* the loop is over: the last line is drawn and the cursor returned
WrapReturns ==
  /\ wrapCall.pc = "loop"
  /\ wrapCall.locals.i = Len(wrapCall.locals.text)
  /\ LET end == WrapEnd(wrapCall.locals)
     IN  wrapCall' = [pc |-> "returned",
                      originalWidth |-> wrapCall.originalWidth,
                      locals |-> [wrapCall.locals EXCEPT !.drawn = end.drawn],
                      result |-> end.y]
  /\ UNCHANGED <<appVars, generating, editorCall, shareCall, rotCase>>

WrapNext == WrapDrawsLine \/ WrapExtendsLine \/ WrapReturns

SpecWrap == WrapInit /\ [][WrapNext]_vars

----------------------------------------------------------------------------
(* the remap applied repeatedly to one point *)

RotInit ==
  /\ AppInit
  /\ apiKeyConfigured = TRUE
  /\ editorCall = NoCall
  /\ generating = NotGenerating
  /\ wrapCall = NoWrap
  /\ shareCall = NoShare
  /\ \E x \in ServiceCoords, y \in ServiceCoords :
    rotCase = [orig |-> [x |-> x, y |-> y],
               cur |-> [x |-> x, y |-> y],
               applied |-> <<>>]

ApplyRemap(r) ==
  /\ Len(rotCase.applied) < MaxRotations
  /\ UNCHANGED <<appVars, generating, wrapCall, editorCall, shareCall>>
  /\ rotCase' = [rotCase EXCEPT !.cur = RemapMark(r, rotCase.cur),
                                !.applied = Append(rotCase.applied, r)]

RotNext == \E r \in Rotations : ApplyRemap(r)

SpecRot == RotInit /\ [][RotNext]_vars

\* |a - b| <= 1e-9, i.e. at most 72057594 units of 2^-56
WithinTolerance(a, b) ==
  LET h  == (a.i - b.i) * Limb + (a.f1 - b.f1)
      d2 == a.f2 - b.f2
  IN  /\ a.i - b.i \in -1..1
      /\ \/ h = 0 /\ d2 <= 72057594 /\ -d2 <= 72057594
         \/ h = 1 /\ Limb + d2 <= 72057594
         \/ h = -1 /\ Limb - d2 <= 72057594

FourQuarterTurns == rotCase.applied = <<90, 90, 90, 90>>

\* C1 as stated: four applications of the 90-degree remap return exactly the
\* original pair.
C1_RoundTripExact ==
  FourQuarterTurns => rotCase.cur = rotCase.orig

\* C1 (amended): four applications of the 90-degree remap (x' = 100 - y,
\* y' = x) to a point of [0,100]^2 return the original pair to within 1e-9
\* in each coordinate, and exactly when both coordinates are integers.
C1_RoundTripWithinTolerance ==
  FourQuarterTurns =>
    /\ WithinTolerance(rotCase.cur.x, rotCase.orig.x)
    /\ WithinTolerance(rotCase.cur.y, rotCase.orig.y)
    /\ (rotCase.orig.x.f1 = 0 /\ rotCase.orig.x.f2 = 0
          /\ rotCase.orig.y.f1 = 0 /\ rotCase.orig.y.f2 = 0
        => rotCase.cur = rotCase.orig)

\* four quarter turns of (0.1, 20) end at (0.09999999999999432, 20)
C1_Witness ==
  /\ FourQuarterTurns
  /\ rotCase.orig = [x |-> Tenth, y |-> FromInt(20)]
  /\ rotCase.cur = [x |-> Num(0, 26843545, 161060864), y |-> FromInt(20)]

\* C2: applying the 90-degree remap twice gives the same coordinates as
\* applying the 180-degree remap once, for every point of [0,100]^2.
C2_TwoQuarterTurnsAreHalfTurn ==
  rotCase.applied = <<90, 90>> =>
    /\ rotCase.cur.x = HundredMinus(rotCase.orig.x)
    /\ rotCase.cur.y = HundredMinus(rotCase.orig.y)
    /\ rotCase.cur = RemapMark(180, rotCase.orig)

\* (33.3, 0.1) after two quarter turns
C2_Witness ==
  /\ rotCase.applied = <<90, 90>>
  /\ rotCase.orig = [x |-> ThirtyThreePointThree, y |-> Tenth]
  /\ rotCase.cur = [x |-> Num(66, 187904819, 53687296),
                    y |-> Num(99, 241591910, 107374592)]

====
